---------------------------- MODULE Spec2Model ----------------------------
(***************************************************************************)
(* Vehicle motion simulation and live telemetry of the snowops operations  *)
(* service: the GPS simulator (internal/simulator), the gps_points         *)
(* repository (internal/repository) and the monitoring service             *)
(* (internal/service/monitoring_service.go).                               *)
(*                                                                         *)
(* Time is an integer count of clock units, SubSec units to the second.    *)
(* The gps_points table is a bag of rows: the UUID primary key only makes  *)
(* two rows of equal content distinct, which is what a bag records.        *)
(* A road is its sequence of waypoints, each a position on a line, so that *)
(* the distance of two waypoints is the absolute difference.  The progress *)
(* on a segment, a float in 0.0 .. 1.0 in the code, is an integer in       *)
(* 0 .. PosScale.                                                          *)
(***************************************************************************)
EXTENDS Integers, Sequences, FiniteSets, Bags, TLC

\* ---------------------------------------------------------------- bounds
SubSec == 2
PosScale == 12
MaxTicks == 4
MaxDwellTicks == 6
MaxSweeps == 1
MaxFaultyTicks == 1
MaxRows == 3
MaxDelay == 1
MaxNodes == 3
MaxCoord == 3
MaxDist == 3

\* ------------------------------------------------------ program constants
UpdateIntervalSec == 5
DefaultCleanupDays == 7
JanitorPeriodHours == 1
MaxAgeMinutes == 5
InTripMinutes == 2
IdleMinutes == 5
SpeedKmh == 20

Seconds(n) == n * SubSec
Minutes(n) == Seconds(60 * n)
Hours(n) == Minutes(60 * n)
Days(n) == Hours(24 * n)

Abs(x) == IF x < 0 THEN -x ELSE x
Min(a, b) == IF a < b THEN a ELSE b

\* The instant the model starts at: later than every age the fixtures use.
Epoch == Days(30)

\* ------------------------------------------------------------ the tables
\* vehicles: id -> contractor_id (0 is NULL).  Vehicle 3 is the simulator's
\* TEST-001 vehicle, which GetOrCreateTestVehicle creates without contractor.
VehicleIDs == {1, 2, 3}
ContractorOf(v) == CASE v = 1 -> 1 [] v = 2 -> 2 [] OTHER -> 0
TestVehicle == 3

\* polygons: the ids of the polygons a fixture may hold, in name order.
AllPolygons == <<1, 2>>

\* cameras of a polygon in the order ListByPolygon returns them (created_at).
Camera(id, type, active) == [id |-> id, type |-> type, active |-> active]
CamerasOf(p) ==
    IF p = 1
    THEN << Camera(1, "ANPR", TRUE), Camera(2, "LPR", FALSE), Camera(3, "LPR", TRUE),
            Camera(4, "LPR", TRUE) >>
    ELSE << Camera(5, "LPR", FALSE) >>

\* The route the simulator drives: waypoints as positions on a line, in units
\* of which one tick covers DistanceUnitsPerTick.
DistanceUnitsPerTick == 2
HardcodedRoute == <<0, 3, 9>>

NoEvent == [polygon |-> 0, camera |-> 0, type |-> "NONE"]

Row(v, t, seg, pos, speed, sim, lpr) ==
    [vehicle |-> v, capturedAt |-> t, seg |-> seg, pos |-> pos, speed |-> speed,
     simulated |-> sim, lpr |-> lpr]

\* A row of a real device feed: no simulation payload.
FeedRow(v, t) == Row(v, t, 0, 0, 0, FALSE, NoEvent)

VARIABLES
    now,               \* the wall clock
    points,            \* table gps_points
    polygonList,       \* table polygons: the active ones, in the order List returns
    roads,             \* GPSSimulator.roads
    currentRoad,       \* GPSSimulator.currentRoad: index into roads, 0 is nil
    currentIndex,      \* GPSSimulator.currentIndex
    currentPos,        \* GPSSimulator.currentPos, in 1/PosScale
    vehicleID,         \* GPSSimulator.vehicleID, 0 before Start
    wasInPolygon,      \* GPSSimulator.wasInPolygon
    currentPolygonID,  \* GPSSimulator.currentPolygonID, 0 is nil
    cleanupDays,       \* GPSSimulator.cleanupDays
    distancePerTick,   \* package variable DistancePerTick
    ctxCancelled,      \* GPSSimulator.ctx is done
    runPc,             \* goroutine run: "new", "loop", "exited"
    janitorPc,         \* goroutine cleanupOldPoints: "new", "loop", "exited"
    tickPending,       \* run's ticker channel holds a tick
    sweepPending,      \* the janitor's ticker channel holds a tick
    ticks,             \* ticker firings so far
    sweeps,            \* janitor ticker firings so far
    faultyTicks,       \* ticks on which a collaborator call failed
    tickBudget,        \* the ticker firings the run is followed for
    faultBudget,       \* the failing ticks the run is followed for
    hist,              \* one record per updatePosition call, oldest first
    feedTimes,         \* the capture instants the device feed may report
    resp               \* the response of the request being served, or Idle

simVars == << roads, currentRoad, currentIndex, currentPos, vehicleID, wasInPolygon,
              currentPolygonID, cleanupDays, distancePerTick, ctxCancelled, runPc,
              janitorPc, tickPending, sweepPending, ticks, sweeps, faultyTicks, hist >>

envVars == << tickBudget, faultBudget >>

vars == << now, points, polygonList, simVars, envVars, feedTimes, resp >>

Idle == [op |-> "idle"]

\* ------------------------------------------------------------ repository
BagOfRow(r) == SetToBag({r})

\* Create with the row written twice
CreateTwice(B, r) == B (+) BagOfRow(r) (+) BagOfRow(r)

\* GPSPointRepository.Create
Create(B, r) == B (+) BagOfRow(r)

\* DeleteOlderThan with the rows captured at the cutoff deleted too
DeleteNotNewerThan(B, cutoff) ==
    [r \in {x \in DOMAIN B : ~(x.capturedAt <= cutoff)} |-> B[r]]

\* GPSPointRepository.DeleteOlderThan: the table after the delete.  The
\* count it returns is the number of rows that left the table.
DeleteOlderThan(B, cutoff) ==
    [r \in {x \in DOMAIN B : ~(x.capturedAt < cutoff)} |-> B[r]]

RowsAffected(B, after) == BagCardinality(B) - BagCardinality(after)


\* -------------------------------------------------------------- simulator
\* The road s.currentRoad points at; the empty road stands for nil.
RoadAt(rs, cr) == IF cr = 0 THEN << >> ELSE rs[cr]

\* getCurrentSegment() is not nil
HasSegment(road, idx) == Len(road) > 0 /\ idx < Len(road) - 1

\* distance(segment.From, segment.To) of the segment at a 0-based index
SegmentLength(road, idx) == Abs(road[idx + 2] - road[idx + 1])

\* SelectRoad with the cursor left where it is
SelectRoadKeepsCursor(rs, cr, idx, pos) == [road |-> cr, index |-> idx, pos |-> pos]

\* selectRandomRoad: the cursor it leaves (it returns at once without roads)
SelectRoad(rs, cr, idx, pos) ==
    IF Len(rs) = 0
    THEN [road |-> cr, index |-> idx, pos |-> pos]
    ELSE [road |-> 1, index |-> 0, pos |-> 0]

\* updatePosition, the segment resolution at its head: the cursor after it, the
\* index of the segment it resolved, and whether it gave up.
ResolveSegment(rs, cr, idx, pos) ==
    IF HasSegment(RoadAt(rs, cr), idx)
    THEN [road |-> cr, index |-> idx, pos |-> pos, seg |-> idx, err |-> FALSE]
    ELSE LET c == IF idx + 1 >= Len(RoadAt(rs, cr)) - 1
                  THEN SelectRoad(rs, cr, idx + 1, pos)
                  ELSE [road |-> cr, index |-> idx + 1, pos |-> pos]
         IN  [road |-> c.road, index |-> c.index, pos |-> c.pos, seg |-> c.index,
              err |-> ~HasSegment(RoadAt(rs, c.road), c.index)]

\* Progress with a vehicle that does not move
ProgressStalls(d, segLen) == 0

\* Progress without the clamp
ProgressUnclamped(d, segLen) ==
    IF segLen = 0 THEN PosScale * d ELSE (d * PosScale) \div segLen

\* distanceToMove / segmentLength clamped to 1.0; a zero-length segment gives
\* +Inf in the code, which the clamp turns into 1.0.
Progress(d, segLen) ==
    IF segLen = 0 THEN PosScale ELSE Min(PosScale, (d * PosScale) \div segLen)

\* the look-ahead test: the rest of the segment is shorter than one tick
RestTooShort(pos, segLen, d) == (PosScale - pos) * segLen < d * PosScale

\* updatePosition, the cursor arithmetic: from a resolved segment to the cursor
\* after the tick and the segment the position is interpolated on.  The
\* segment length is read once, before the look-ahead.
MoveCursor(rs, c, d) ==
    LET segLen == SegmentLength(RoadAt(rs, c.road), c.seg)
        ahead == RestTooShort(c.pos, segLen, d)
        wrap == ahead /\ c.index + 1 >= Len(RoadAt(rs, c.road)) - 1
        c2 == IF wrap THEN SelectRoad(rs, c.road, c.index + 1, 0)
              ELSE IF ahead THEN [road |-> c.road, index |-> c.index + 1, pos |-> 0]
              ELSE [road |-> c.road, index |-> c.index, pos |-> c.pos]
        err == wrap /\ ~HasSegment(RoadAt(rs, c2.road), c2.index)
    IN  [road |-> c2.road, index |-> c2.index,
         pos |-> IF err THEN c2.pos ELSE c2.pos + Progress(d, segLen),
         seg |-> c2.index, segLen |-> segLen, wrapped |-> wrap, err |-> err,
         progress |-> IF err THEN 0 ELSE Progress(d, segLen)]

\* ---------------------------------------------------------------- geofence
\* What fails on a tick: nothing, one collaborator call, or every call.
FaultKinds == {"none", "list", "contains1", "contains2", "camera", "persist", "all"}
ListFails(f) == f \in {"list", "all"}
ContainsFails(f, p) ==
    f = "all" \/ (f = "contains1" /\ p = 1) \/ (f = "contains2" /\ p = 2)
CameraFails(f) == f \in {"camera", "all"}
PersistFails(f) == f \in {"persist", "all"}
LookupFails(f) == f \in {"list", "contains1", "contains2", "camera", "all"}

\* The first polygon of the list, from position i on, whose containment check
\* succeeds and returns true; 0 when there is none.  inside is the set of
\* polygons whose geometry contains the position.
RECURSIVE FirstMatch(_, _, _, _)
FirstMatch(list, i, inside, f) ==
    IF i > Len(list) THEN 0
    ELSE IF ~ContainsFails(f, list[i]) /\ list[i] \in inside THEN list[i]
    ELSE FirstMatch(list, i + 1, inside, f)

\* the last polygon of the list, down from position i, whose containment
\* check succeeds and returns true; 0 when there is none
RECURSIVE LastMatch(_, _, _, _)
LastMatch(list, i, inside, f) ==
    IF i < 1 THEN 0
    ELSE IF ~ContainsFails(f, list[i]) /\ list[i] \in inside THEN list[i]
    ELSE LastMatch(list, i - 1, inside, f)

\* MatchPolygon with the loop run to its end, the last match winning
MatchPolygonLast(list, inside, f) ==
    IF ListFails(f) THEN 0 ELSE LastMatch(list, Len(list), inside, f)

\* the polygon loop of updatePosition: the matched polygon, 0 for none
MatchPolygon(list, inside, f) ==
    IF ListFails(f) THEN 0 ELSE FirstMatch(list, 1, inside, f)

\* the polygon that truly contains the position, first in listing order
TrueMatch(list, inside) == FirstMatch(list, 1, inside, "none")

\* the camera loop: the first active LPR camera of the listing, 0 for none
RECURSIVE FirstLPR(_, _)
FirstLPR(cams, i) ==
    IF i > Len(cams) THEN 0
    ELSE IF cams[i].active /\ cams[i].type = "LPR" THEN cams[i].id
    ELSE FirstLPR(cams, i + 1)

\* the camera loop taking the first active camera of any type
RECURSIVE FirstActive(_, _)
FirstActive(cams, i) ==
    IF i > Len(cams) THEN 0
    ELSE IF cams[i].active THEN cams[i].id
    ELSE FirstActive(cams, i + 1)

\* FindCamera with the type of the camera not looked at
FindCameraAnyType(p, f) == IF CameraFails(f) THEN 0 ELSE FirstActive(CamerasOf(p), 1)

\* ListByPolygon and the camera loop: the camera of the event, 0 for none
FindCamera(p, f) == IF CameraFails(f) THEN 0 ELSE FirstLPR(CamerasOf(p), 1)

\* Only a call that the tick makes can fail: the containment check of the
\* second polygon is made when the first did not match, the camera listing
\* when an entry is detected.
CallMade(f, inside, was) ==
    /\ f = "contains1" => Len(polygonList) >= 1
    /\ f = "contains2" => (Len(polygonList) >= 2 /\ polygonList[1] \notin inside)
    /\ f = "camera" => (TrueMatch(polygonList, inside) # 0 /\ ~was)

\* "if !s.wasInPolygon" under "if err == nil && contains"
EntryDetected(was, matched) == matched # 0 /\ ~was

\* NextWasInPolygon with the flag never cleared on leaving a polygon
NextWasInPolygonSticky(was, matched) == was \/ matched # 0

\* "s.wasInPolygon = inPolygon"
NextWasInPolygon(was, matched) == matched # 0

\* the lprEvent map of an entry, NoEvent when there is none
LprEvent(was, matched, f) ==
    IF EntryDetected(was, matched)
    THEN [polygon |-> matched, camera |-> FindCamera(matched, f), type |-> "ENTRY"]
    ELSE NoEvent

\* ------------------------------------------------------- simulator actions
apiVars == << polygonList, envVars, feedTimes, resp >>

PolygonSet == {polygonList[i] : i \in DOMAIN polygonList}

\* The record hist keeps of one updatePosition call.
TickRecord(f, inside, matched, lpr, persisted, err, c) ==
    [at |-> now, fault |-> f, inside |-> inside,
     truth |-> TrueMatch(polygonList, inside), matched |-> matched, lpr |-> lpr,
     persisted |-> persisted, err |-> err, wasBefore |-> wasInPolygon,
     preIndex |-> currentIndex, prePos |-> currentPos,
     index |-> c.index, pos |-> c.pos, seg |-> c.seg,
     progress |-> IF "progress" \in DOMAIN c THEN c.progress ELSE 0,
     segLen |-> IF "segLen" \in DOMAIN c THEN c.segLen ELSE 0,
     wrapped |-> IF "wrapped" \in DOMAIN c THEN c.wrapped ELSE FALSE]

\* updatePosition returning before it computed a position
TickGivesUp(f, err, c) ==
    /\ currentRoad' = c.road
    /\ currentIndex' = c.index
    /\ currentPos' = c.pos
    /\ hist' = Append(hist, TickRecord(f, {}, 0, NoEvent, FALSE, err, c))
    /\ UNCHANGED << points, wasInPolygon, currentPolygonID >>

\* updatePosition from the interpolation on: geofence, flags, persistence
TickEmits(inside, f, c) ==
    LET matched == MatchPolygon(polygonList, inside, f)
        lpr == LprEvent(wasInPolygon, matched, f)
        row == Row(vehicleID, now, c.seg, c.pos, SpeedKmh, TRUE, lpr)
        saved == ~PersistFails(f)
    IN  /\ currentRoad' = c.road
        /\ currentIndex' = c.index
        /\ currentPos' = c.pos
        /\ wasInPolygon' = NextWasInPolygon(wasInPolygon, matched)
        /\ currentPolygonID' = matched
        /\ points' = IF saved THEN Create(points, row) ELSE points
        /\ hist' = Append(hist,
                      TickRecord(f, inside, matched, lpr, saved,
                                 IF saved THEN "" ELSE "failed to save GPS point", c))

\* GPSSimulator.updatePosition, with what the collaborators answer on this
\* tick: the polygons containing the new position and the call that fails.
UpdatePosition(inside, f) ==
    LET here == [road |-> currentRoad, index |-> currentIndex, pos |-> currentPos,
                 seg |-> currentIndex]
        c1 == ResolveSegment(roads, currentRoad, currentIndex, currentPos)
        c2 == MoveCursor(roads, c1, distancePerTick)
    IN  IF currentRoad = 0 \/ Len(RoadAt(roads, currentRoad)) < 2
        THEN TickGivesUp(f, "invalid road", here)
        ELSE IF c1.err THEN TickGivesUp(f, "no valid segment", c1)
        ELSE IF c2.err THEN TickGivesUp(f, "no valid segment", c2)
        ELSE TickEmits(inside, f, c2)

\* JanitorStarts with 0 days taken for a retention
JanitorStartsAtZero(days) == days >= 0 /\ ~(days < 0)

\* run launches the janitor, and cleanupOldPoints does not return at once
JanitorStarts(days) == days > 0 /\ ~(days <= 0)

\* The route sets a build may carry in loadHardcodedRoute: none, a path of no
\* waypoint, a path of one waypoint, the route of this build.
RouteSets == {<< >>, << << >> >>, << <<0>> >>, << HardcodedRoute >>}

\* GPSSimulator.Start: the test vehicle, the route, the first road, go run().
\* run's first statements (the ticker, the janitor) belong to the same step.
\* Start returns an error when the test vehicle is not to be had or no road
\* is loaded; s.roads[0].Nodes[0] panics on a road of no waypoint.  Start may
\* be called again once the context is cancelled: the test vehicle is then
\* not to be had.
StartWith(loads) ==
    /\ runPc = "new" \/ (ctxCancelled /\ runPc \in {"loop", "exited"})
    /\ \E vehicleOk \in {~ctxCancelled, FALSE}, loaded \in loads :
          IF ~vehicleOk
          THEN UNCHANGED << simVars >>
          ELSE IF Len(loaded) = 0
          THEN /\ vehicleID' = TestVehicle
               /\ roads' = loaded
               /\ UNCHANGED << currentRoad, currentIndex, currentPos, runPc, janitorPc,
                               wasInPolygon, currentPolygonID, cleanupDays,
                               distancePerTick, ctxCancelled, tickPending, sweepPending,
                               ticks, sweeps, faultyTicks, hist >>
          ELSE IF Len(loaded[1]) = 0
          THEN /\ vehicleID' = TestVehicle
               /\ roads' = loaded
               /\ runPc' = "panicked"
               /\ UNCHANGED << currentRoad, currentIndex, currentPos, janitorPc,
                               wasInPolygon, currentPolygonID, cleanupDays,
                               distancePerTick, ctxCancelled, tickPending, sweepPending,
                               ticks, sweeps, faultyTicks, hist >>
          ELSE /\ vehicleID' = TestVehicle
               /\ roads' = loaded
               /\ LET c == SelectRoad(loaded, currentRoad, currentIndex, currentPos)
                  IN  /\ currentRoad' = c.road
                      /\ currentIndex' = c.index
                      /\ currentPos' = c.pos
               /\ runPc' = "loop"
               /\ janitorPc' = IF JanitorStarts(cleanupDays) THEN "loop" ELSE janitorPc
               /\ UNCHANGED << wasInPolygon, currentPolygonID, cleanupDays,
                               distancePerTick, ctxCancelled, tickPending, sweepPending,
                               ticks, sweeps, faultyTicks, hist >>
    /\ UNCHANGED << now, points, apiVars >>

\* Start of this build, whose loadHardcodedRoute loads the one route
Start == StartWith({<< HardcodedRoute >>})

\* Start of a build with any of the route sets
StartConfigured == StartWith(RouteSets)

\* GPSSimulator.Stop
Stop ==
    /\ ~ctxCancelled
    /\ ctxCancelled' = TRUE
    /\ UNCHANGED << now, points, apiVars, roads, currentRoad, currentIndex, currentPos,
                    vehicleID, wasInPolygon, currentPolygonID, cleanupDays,
                    distancePerTick, runPc, janitorPc, tickPending, sweepPending, ticks,
                    sweeps, faultyTicks, hist >>

\* TickInstant with a ticker that fires again at once
TickInstantSame(t) == t

\* time.NewTicker(s.updateInterval): the instant of the firing after t
TickInstant(t) == t + Seconds(UpdateIntervalSec)

\* run's ticker fires: updateInterval has passed
TickerFires ==
    /\ runPc = "loop"
    /\ ticks < tickBudget
    /\ now' = TickInstant(now)
    /\ tickPending' = TRUE
    /\ ticks' = ticks + 1
    /\ UNCHANGED << points, apiVars, roads, currentRoad, currentIndex, currentPos,
                    vehicleID, wasInPolygon, currentPolygonID, cleanupDays,
                    distancePerTick, ctxCancelled, runPc, janitorPc, sweepPending,
                    sweeps, faultyTicks, hist >>

\* LoopAfterTick with the loop left on a failed tick
LoopStopsOnError(err) == IF err # "" THEN "exited" ELSE "loop"

\* run, after updatePosition: the error is logged and the loop goes on
LoopAfterTick(err) == "loop"

\* run, "case <-ticker.C": one updatePosition.  With the context cancelled
\* every collaborator call fails, so that what the polygons contain is not
\* observed: the step is taken with no polygon containing the position.
RunTick ==
    /\ runPc = "loop"
    /\ tickPending
    /\ tickPending' = FALSE
    /\ \E inside \in SUBSET PolygonSet, f \in FaultKinds :
          /\ ctxCancelled => (f = "all" /\ inside = {})
          /\ CallMade(f, inside, wasInPolygon)
          /\ (~ctxCancelled /\ f # "none") => faultyTicks < faultBudget
          /\ faultyTicks' = IF ~ctxCancelled /\ f # "none" THEN faultyTicks + 1
                            ELSE faultyTicks
          /\ UpdatePosition(inside, f)
    /\ runPc' = LoopAfterTick(hist'[Len(hist')].err)
    /\ UNCHANGED << now, apiVars, roads, vehicleID, cleanupDays, distancePerTick,
                    ctxCancelled, janitorPc, sweepPending, ticks, sweeps >>

\* run, "case <-s.ctx.Done()"
RunExits ==
    /\ runPc = "loop"
    /\ ctxCancelled
    /\ runPc' = "exited"
    /\ UNCHANGED << now, points, apiVars, roads, currentRoad, currentIndex, currentPos,
                    vehicleID, wasInPolygon, currentPolygonID, cleanupDays,
                    distancePerTick, ctxCancelled, janitorPc, tickPending, sweepPending,
                    ticks, sweeps, faultyTicks, hist >>

\* the janitor's ticker fires: an hour has passed (run's ticker fired too)
JanitorTickerFires ==
    /\ janitorPc = "loop"
    /\ sweeps < MaxSweeps
    /\ now' = now + Hours(JanitorPeriodHours)
    /\ sweepPending' = TRUE
    /\ sweeps' = sweeps + 1
    /\ tickPending' = (tickPending \/ runPc = "loop")
    /\ UNCHANGED << points, apiVars, roads, currentRoad, currentIndex, currentPos,
                    vehicleID, wasInPolygon, currentPolygonID, cleanupDays,
                    distancePerTick, ctxCancelled, runPc, janitorPc, ticks, faultyTicks,
                    hist >>

\* the cutoff of a sweep: time.Now().AddDate(0, 0, -s.cleanupDays)
SweepCutoff(t, days) == t - Days(days)

\* cleanupOldPoints, "case <-ticker.C": one DeleteOlderThan, whose failure is
\* logged.  With the context cancelled the delete fails.
JanitorSweep ==
    /\ janitorPc = "loop"
    /\ sweepPending
    /\ sweepPending' = FALSE
    /\ \E deleteOk \in {~ctxCancelled, FALSE} :
          points' = IF deleteOk
                    THEN DeleteOlderThan(points, SweepCutoff(now, cleanupDays))
                    ELSE points
    /\ UNCHANGED << now, apiVars, roads, currentRoad, currentIndex, currentPos,
                    vehicleID, wasInPolygon, currentPolygonID, cleanupDays,
                    distancePerTick, ctxCancelled, runPc, janitorPc, tickPending, ticks,
                    sweeps, faultyTicks, hist >>

\* cleanupOldPoints, "case <-s.ctx.Done()"
JanitorExits ==
    /\ janitorPc = "loop"
    /\ ctxCancelled
    /\ janitorPc' = "exited"
    /\ UNCHANGED << now, points, apiVars, roads, currentRoad, currentIndex, currentPos,
                    vehicleID, wasInPolygon, currentPolygonID, cleanupDays,
                    distancePerTick, ctxCancelled, runPc, tickPending, sweepPending,
                    ticks, sweeps, faultyTicks, hist >>

\* The points a device feed left in the table before the simulator starts:
\* one vehicle, aged 1, 6, 8 and 10 days.
OldFixture ==
    SetToBag({FeedRow(1, Epoch - Days(a)) : a \in {1, 6, 8, 10}})

\* The table gps_points holding the bag B, the device feed reporting the
\* capture instants feed from then on.
Stored(B, feed) == points = B /\ feedTimes = feed

\* NewGPSSimulator with cleanupDays one of days, on a table polygons whose
\* active rows are list.  The run is followed for nTicks ticker firings,
\* nFaults of them failing.
Constructed(days, list, nTicks, nFaults) ==
    /\ now = Epoch
    /\ tickBudget = nTicks
    /\ faultBudget = nFaults
    /\ polygonList = list
    /\ roads = << >>
    /\ currentRoad = 0
    /\ currentIndex = 0
    /\ currentPos = 0
    /\ vehicleID = 0
    /\ wasInPolygon = FALSE
    /\ currentPolygonID = 0
    /\ cleanupDays \in days
    /\ distancePerTick = DistanceUnitsPerTick
    /\ ctxCancelled = FALSE
    /\ runPc = "new"
    /\ janitorPc = "new"
    /\ tickPending = FALSE
    /\ sweepPending = FALSE
    /\ ticks = 0
    /\ sweeps = 0
    /\ faultyTicks = 0
    /\ hist = << >>
    /\ resp = Idle

\* The simulator with its janitor, no polygon being active: cleanupDays is
\* the configured GPS_SIMULATOR_CLEANUP_DAYS, disabled (<= 0) or the default.
\* No call fails while the context is live.
Init ==
    /\ Constructed({-1, 0, DefaultCleanupDays}, << >>, MaxTicks, 0)
    /\ Stored(OldFixture, {})

Next ==
    \/ Start
    \/ Stop
    \/ TickerFires
    \/ RunTick
    \/ RunExits
    \/ JanitorTickerFires
    \/ JanitorSweep
    \/ JanitorExits

Spec == Init /\ [][Next]_vars

\* The tick loop over the active polygons, the janitor being disabled (with
\* cleanupDays = 0 no janitor step is ever enabled).
GeofenceInit ==
    /\ Constructed({0}, AllPolygons, MaxTicks, MaxFaultyTicks)
    /\ Stored(OldFixture, {})

TickNext ==
    \/ Start
    \/ Stop
    \/ TickerFires
    \/ RunTick
    \/ RunExits

GeofenceSpec == GeofenceInit /\ [][TickNext]_vars

\* The same tick loop followed longer, no collaborator call failing while the
\* context is live.
DwellInit ==
    /\ Constructed({0}, AllPolygons, MaxDwellTicks, 0)
    /\ Stored(OldFixture, {})

DwellSpec == DwellInit /\ [][TickNext]_vars

\* The paths of 2 .. MaxNodes waypoints at the positions 0 .. MaxCoord; two
\* waypoints in a row may coincide.
RECURSIVE PathsOfLength(_)
PathsOfLength(n) ==
    IF n = 0 THEN {<< >>}
    ELSE {Append(p, x) : p \in PathsOfLength(n - 1), x \in 0..MaxCoord}

Paths == UNION {PathsOfLength(n) : n \in 2..MaxNodes}

\* The simulator as Start leaves it when the route it loads is path and a
\* tick covers d units: the loop running on the one road, the cursor at its
\* head, the janitor disabled, no polygon active, no call failing while the
\* context is live.
Running(path, d, nTicks) ==
    /\ now = Epoch
    /\ tickBudget = nTicks
    /\ faultBudget = 0
    /\ polygonList = << >>
    /\ roads = << path >>
    /\ currentRoad = 1
    /\ currentIndex = 0
    /\ currentPos = 0
    /\ vehicleID = TestVehicle
    /\ wasInPolygon = FALSE
    /\ currentPolygonID = 0
    /\ cleanupDays = 0
    /\ distancePerTick = d
    /\ ctxCancelled = FALSE
    /\ runPc = "loop"
    /\ janitorPc = "new"
    /\ tickPending = FALSE
    /\ sweepPending = FALSE
    /\ ticks = 0
    /\ sweeps = 0
    /\ faultyTicks = 0
    /\ hist = << >>
    /\ resp = Idle

\* The tick loop on any path, at any distance per tick.
CursorInit ==
    /\ \E path \in Paths, d \in 1..MaxDist : Running(path, d, MaxTicks)
    /\ Stored(EmptyBag, {})

CursorNext ==
    \/ Stop
    \/ TickerFires
    \/ RunTick
    \/ RunExits

CursorSpec == CursorInit /\ [][CursorNext]_vars

\* The tick loop, no polygon being active, under the scheduling of the Go
\* runtime: a ticker that is running fires, and a goroutine whose select has a
\* ready case takes a step.
FairInit ==
    /\ Constructed({0}, << >>, MaxTicks, MaxFaultyTicks)
    /\ Stored(OldFixture, {})

FairSpec ==
    /\ FairInit
    /\ [][TickNext]_vars
    /\ WF_vars(TickerFires)
    /\ WF_vars(RunTick)
    /\ WF_vars(RunExits)

\* ------------------------------------------------------- monitoring service
\* model.UserRole; "UNKNOWN" stands for any role string outside the constants
Roles ==
    {"AKIMAT_ADMIN", "KGU_ZKH_ADMIN", "TOO_ADMIN", "LANDFILL_ADMIN", "LANDFILL_USER",
     "CONTRACTOR_ADMIN", "DRIVER", "UNKNOWN"}

\* model.Principal: the role and the organization of the caller
Principal(role, org) == [role |-> role, org |-> org]

Principals ==
    {Principal(r, 1) : r \in Roles} \cup {Principal("CONTRACTOR_ADMIN", 2)}

IsAkimat(p) == p.role = "AKIMAT_ADMIN"
IsKgu(p) == p.role = "KGU_ZKH_ADMIN"
IsTechnicalOperator(p) == p.role \in {"TOO_ADMIN", "LANDFILL_ADMIN", "LANDFILL_USER"}
IsContractor(p) == p.role = "CONTRACTOR_ADMIN"
IsDriver(p) == p.role = "DRIVER"

\* An id that names no row of table vehicles.
UnknownVehicle == 4

\* VehicleRepository.List(ctx, contractorID, false); contractor 0 is nil
VehicleList(contractor) ==
    IF contractor = 0 THEN VehicleIDs
    ELSE {v \in VehicleIDs : ContractorOf(v) = contractor}

\* What a storage call of a request meets: no failure, the failure of the call
\* on table vehicles, the failure of the call on table gps_points.
StoreFaults == {"none", "vehicles", "points"}

\* time.Time.Format(time.RFC3339): the instant cut to whole seconds
Format(t) == t \div SubSec

\* GetLatestForVehicles, the query: the rows of the vehicles not older than
\* the cutoff
FetchedRows(B, ids, cutoff) ==
    {r \in DOMAIN B : r.vehicle \in ids /\ r.capturedAt >= cutoff}

\* LatestRows with the rows of a vehicle listed oldest first
EarliestRows(F, v) ==
    {r \in F : r.vehicle = v /\ \A q \in F : q.vehicle = v => q.capturedAt >= r.capturedAt}

\* The rows the query may list first for a vehicle: "captured_at DESC"
LatestRows(F, v) ==
    {r \in F : r.vehicle = v /\ \A q \in F : q.vehicle = v => q.capturedAt <= r.capturedAt}

\* GPSPointRepository.GetLatestForVehicles: the maps it may return
GetLatestForVehicles(B, ids, cutoff) ==
    LET F == FetchedRows(B, ids, cutoff)
        seen == {r.vehicle : r \in F}
    IN  {m \in [seen -> F] : \A v \in seen : m[v] \in LatestRows(F, v)}

\* StatusOf with both bounds taken inclusive
StatusOfInclusive(age) ==
    IF age <= Minutes(InTripMinutes) THEN "IN_TRIP"
    ELSE IF age <= Minutes(IdleMinutes) THEN "IDLE"
    ELSE "OFFLINE"

\* StatusOf with a trip lasting up to three minutes
StatusOfThreeMinutes(age) ==
    IF age < Minutes(InTripMinutes + 1) THEN "IN_TRIP"
    ELSE IF age < Minutes(IdleMinutes) THEN "IDLE"
    ELSE "OFFLINE"

\* the status of a vehicle whose latest fetched sample has the given age
StatusOf(age) ==
    IF age < Minutes(InTripMinutes) THEN "IN_TRIP"
    ELSE IF age < Minutes(IdleMinutes) THEN "IDLE"
    ELSE "OFFLINE"

\* GPSPointData, and its absence (LastGPS is nil)
NoGPS == [present |-> FALSE, capturedAt |-> 0, lat |-> 0, lon |-> 0, simulated |-> FALSE]
GPSPointData(r) ==
    [present |-> TRUE, capturedAt |-> Format(r.capturedAt), lat |-> r.seg, lon |-> r.pos,
     simulated |-> r.simulated]

\* LiveEntry with the position withheld from a vehicle found OFFLINE
LiveEntryHidingStale(v, latest, at) ==
    LET hasGPS == v \in DOMAIN latest
        status == IF hasGPS THEN StatusOf(at - latest[v].capturedAt) ELSE "OFFLINE"
    IN  [vehicle |-> v, contractor |-> ContractorOf(v), status |-> status,
         lastGps |-> IF hasGPS /\ status # "OFFLINE" THEN GPSPointData(latest[v])
                     ELSE NoGPS,
         classifiedAt |-> at]

\* VehicleLiveData of one vehicle, built at instant at (time.Since reads the
\* clock then) from the map GetLatestForVehicles returned
LiveEntry(v, latest, at) ==
    LET hasGPS == v \in DOMAIN latest
    IN  [vehicle |-> v, contractor |-> ContractorOf(v),
         status |-> IF hasGPS THEN StatusOf(at - latest[v].capturedAt) ELSE "OFFLINE",
         lastGps |-> IF hasGPS THEN GPSPointData(latest[v]) ELSE NoGPS,
         classifiedAt |-> at]

\* GetVehiclesLive, the role branches: the caller has no branch
LiveDenied(p) ==
    ~(IsAkimat(p) \/ IsKgu(p) \/ IsTechnicalOperator(p) \/ IsContractor(p) \/ IsDriver(p))

\* GetVehiclesLive, the role branches: whether the branch lists vehicles
LiveLists(p) ==
    IsAkimat(p) \/ IsKgu(p) \/ IsTechnicalOperator(p) \/ IsContractor(p)

\* GetVehiclesLive, the role branches: the vehicles the caller sees
LiveScope(p) ==
    IF IsAkimat(p) \/ IsKgu(p) THEN VehicleList(0)
    ELSE IF IsTechnicalOperator(p) THEN VehicleList(0)
    ELSE IF IsContractor(p) THEN VehicleList(p.org)
    ELSE {}

\* GetVehiclesLive, the error it returns, "" for none
LiveError(p, f) ==
    IF LiveDenied(p) THEN "PermissionDenied"
    ELSE IF LiveLists(p) /\ f = "vehicles" THEN "Internal"
    ELSE IF LiveScope(p) # {} /\ f = "points" THEN "Internal"
    ELSE ""

MaxOf(S) == CHOOSE x \in S : \A y \in S : y <= x

\* BBox, and its absence (input.BBox is nil)
NoBBox == [present |-> FALSE, minLat |-> 0, minLon |-> 0, maxLat |-> 0, maxLon |-> 0]
BBox(minLat, minLon, maxLat, maxLon) ==
    [present |-> TRUE, minLat |-> minLat, minLon |-> minLon, maxLat |-> maxLat,
     maxLon |-> maxLon]

\* VehiclesLiveInput as vehiclesLive builds it from the query; contractor 0
\* is nil
VehiclesLiveInput(bbox, contractor) == [bbox |-> bbox, contractor |-> contractor]
NoFilter == VehiclesLiveInput(NoBBox, 0)
LiveInputs ==
    {VehiclesLiveInput(b, c) :
        b \in {NoBBox, BBox(0, 0, 1, PosScale), BBox(1, 1, 2, PosScale)}, c \in {0, 2}}

\* MonitoringService.GetVehiclesLive.  The cutoff is read when the request
\* reaches the repository; the age of the sample of vehicle v is read
\* delay[v] clock units later.
VehiclesLive(inputs) ==
    /\ resp = Idle
    /\ \E p \in Principals, f \in StoreFaults, delay \in [VehicleIDs -> 0..MaxDelay],
          input \in inputs :
          LET err == LiveError(p, f)
              ids == IF err = "" THEN LiveScope(p) ELSE {}
              cutoff == now - Minutes(MaxAgeMinutes)
              done == now + MaxOf({0} \cup {delay[v] : v \in ids})
          IN  /\ done <= Epoch + MaxDelay
              /\ \E latest \in GetLatestForVehicles(points, ids, cutoff) :
                    resp' = [op |-> "live", principal |-> p, input |-> input,
                             at |-> now, cutoff |-> cutoff, err |-> err,
                             entries |-> [v \in ids |->
                                             LiveEntry(v, latest, now + delay[v])]]
              /\ now' = done
    /\ UNCHANGED << points, polygonList, simVars, envVars, feedTimes >>

\* GET /monitoring/vehicles/live with no query parameter
GetVehiclesLive == VehiclesLive({NoFilter})

\* GET /monitoring/vehicles/live with min_lat .. max_lon, contractor_id or both
GetVehiclesLiveFiltered == VehiclesLive(LiveInputs \ {NoFilter})

\* InRange with the upper bound excluded
InRangeExclusive(B, v, from, to) ==
    [r \in {x \in DOMAIN B : x.vehicle = v /\ x.capturedAt >= from /\ x.capturedAt < to}
       |-> B[r]]

\* GetTrack, the WHERE clause: the rows of the vehicle captured in from .. to
InRange(B, v, from, to) ==
    [r \in {x \in DOMAIN B : x.vehicle = v /\ x.capturedAt >= from /\ x.capturedAt <= to}
       |-> B[r]]

BagOfSeq(s) ==
    [r \in {s[i] : i \in DOMAIN s} |-> Cardinality({i \in DOMAIN s : s[i] = r})]

\* GPSPointRepository.GetTrack: the listings it may return.  "ORDER BY
\* captured_at ASC" leaves rows of equal captured_at in any order.
GetTrack(B, v, from, to) ==
    LET M == InRange(B, v, from, to)
        n == BagCardinality(M)
    IN  {s \in [1..n -> DOMAIN M] :
            /\ BagOfSeq(s) = M
            /\ \A i \in 1..(n - 1) : s[i].capturedAt <= s[i + 1].capturedAt}

\* TrackPoint
TrackPoint(r) == [lat |-> r.seg, lon |-> r.pos, capturedAt |-> Format(r.capturedAt)]

\* CanView with a contractor let in on the vehicles of any contractor
CanViewAnyContractor(p, v) ==
    IF IsAkimat(p) \/ IsKgu(p) \/ IsTechnicalOperator(p) THEN TRUE
    ELSE IF IsContractor(p) THEN ContractorOf(v) # 0
    ELSE FALSE

\* GetVehicleTrack, canView
CanView(p, v) ==
    IF IsAkimat(p) \/ IsKgu(p) \/ IsTechnicalOperator(p) THEN TRUE
    ELSE IF IsContractor(p) THEN ContractorOf(v) # 0 /\ ContractorOf(v) = p.org
    ELSE FALSE

\* GetVehicleTrack, the error it returns, "" for none
TrackError(p, v, f) ==
    IF f = "vehicles" THEN "Internal"
    ELSE IF v \notin VehicleIDs THEN "NotFound"
    ELSE IF ~CanView(p, v) THEN "PermissionDenied"
    ELSE IF f = "points" THEN "Internal"
    ELSE ""

\* MonitoringService.GetVehicleTrack
GetVehicleTrack ==
    /\ resp = Idle
    /\ \E p \in Principals, v \in VehicleIDs \cup {UnknownVehicle}, from \in feedTimes,
          to \in feedTimes, f \in StoreFaults :
          LET err == TrackError(p, v, f)
          IN  \E rows \in (IF err = "" THEN GetTrack(points, v, from, to) ELSE {<< >>}) :
                 resp' = [op |-> "track", principal |-> p, vehicle |-> v, from |-> from,
                          to |-> to, err |-> err, rows |-> rows,
                          track |-> [i \in DOMAIN rows |-> TrackPoint(rows[i])]]
    /\ UNCHANGED << now, points, polygonList, simVars, envVars, feedTimes >>

\* CanDelete with the technical operators let in
CanDeleteOperators(p) == IsKgu(p) \/ IsAkimat(p) \/ IsTechnicalOperator(p)

\* DeleteOldGPSPoints, the permission check
CanDelete(p) == ~(~IsKgu(p) /\ ~IsAkimat(p))

\* DeleteOldGPSPoints, the error it returns, "" for none
DeleteError(p, olderThan, f) ==
    IF ~CanDelete(p) THEN "PermissionDenied"
    ELSE IF olderThan > now THEN "InvalidInput"
    ELSE IF f = "points" THEN "Internal"
    ELSE ""

\* The cutoffs a deletion is asked for: an instant the feed reported, the
\* default retention before now, now, an hour from now.
DeleteCutoffs ==
    feedTimes \cup {now - Days(DefaultCleanupDays), now, now + Hours(1)}

\* MonitoringService.DeleteOldGPSPoints
DeleteOldGPSPoints ==
    /\ resp = Idle
    /\ \E p \in Principals, olderThan \in DeleteCutoffs, f \in StoreFaults :
          LET err == DeleteError(p, olderThan, f)
              after == IF err = "" THEN DeleteOlderThan(points, olderThan) ELSE points
          IN  /\ points' = after
              /\ resp' = [op |-> "delete", principal |-> p, cutoff |-> olderThan,
                          at |-> now, err |-> err,
                          deleted |-> IF err = "" THEN RowsAffected(points, after) ELSE 0,
                          before |-> points]
    /\ UNCHANGED << now, polygonList, simVars, envVars, feedTimes >>

\* The vehicles whose devices report.
FeedVehicles == {1, 2}

\* A device reports a position: GPSPointRepository.Create of a feed row
CreatePoint ==
    /\ resp = Idle
    /\ BagCardinality(points) < MaxRows
    /\ \E v \in FeedVehicles, t \in feedTimes : points' = Create(points, FeedRow(v, t))
    /\ UNCHANGED << now, polygonList, simVars, envVars, feedTimes, resp >>

\* The handler writes the response out
Respond ==
    /\ resp # Idle
    /\ resp' = Idle
    /\ UNCHANGED << now, points, polygonList, simVars, envVars, feedTimes >>

\* The capture instants of the feeds the requests are served over: samples
\* aged 90 s, 179 s, 181 s and 301 s; samples at the bounds of the statuses
\* and one clock unit inside the fetch window; samples aged whole days.
FreshFeed == {Epoch - Seconds(a) : a \in {90, 179, 181, 301}}
EdgeFeed ==
    {Epoch - Minutes(InTripMinutes), Epoch - Minutes(IdleMinutes),
     Epoch - Minutes(IdleMinutes) + 1}
DayFeed == {Epoch - Days(a) : a \in {7, 8}}

\* The service over a table gps_points that is empty, or holds OldFixture; the
\* simulator is constructed and not started.
ApiInit ==
    /\ Constructed({DefaultCleanupDays}, << >>, 0, 0)
    /\ \/ Stored(EmptyBag, FreshFeed)
       \/ Stored(EmptyBag, EdgeFeed)
       \/ Stored(OldFixture, DayFeed)

ApiNext ==
    \/ CreatePoint
    \/ GetVehiclesLive
    \/ GetVehicleTrack
    \/ DeleteOldGPSPoints
    \/ Respond

ApiSpec == ApiInit /\ [][ApiNext]_vars

\* The live listing asked for with and without filters, over a table the
\* feeds fill.
FilterInit ==
    /\ Constructed({DefaultCleanupDays}, << >>, 0, 0)
    /\ Stored(EmptyBag, FreshFeed)

FilterNext ==
    \/ CreatePoint
    \/ GetVehiclesLive
    \/ GetVehiclesLiveFiltered
    \/ Respond

FilterSpec == FilterInit /\ [][FilterNext]_vars

\* The simulator of a build with any of the route sets, no janitor and no
\* failing collaborator.
ConfigInit ==
    /\ Constructed({0}, << >>, MaxTicks, 0)
    /\ Stored(EmptyBag, {})

ConfigNext ==
    \/ StartConfigured
    \/ Stop
    \/ TickerFires
    \/ RunTick
    \/ RunExits

ConfigSpec == ConfigInit /\ [][ConfigNext]_vars

\* The cursor arithmetic of updatePosition applied tick after tick for as
\* long as the loop runs: the segment resolution, the look-ahead and the
\* advance, which alone write the cursor.  hist keeps the record of the last
\* tick only; the clock, the geofence and the table are left out.
Advance ==
    /\ runPc = "loop"
    /\ ~ctxCancelled
    /\ LET c1 == ResolveSegment(roads, currentRoad, currentIndex, currentPos)
           c2 == MoveCursor(roads, c1, distancePerTick)
           c == IF c1.err THEN c1 ELSE c2
       IN  /\ currentRoad' = c.road
           /\ currentIndex' = c.index
           /\ currentPos' = c.pos
           /\ hist' = << TickRecord("none", {}, 0, NoEvent, FALSE,
                                    IF c.err THEN "no valid segment" ELSE "", c) >>
    /\ UNCHANGED << now, points, apiVars, roads, vehicleID, wasInPolygon,
                    currentPolygonID, cleanupDays, distancePerTick, ctxCancelled,
                    runPc, janitorPc, tickPending, sweepPending, ticks, sweeps,
                    faultyTicks >>

\* The lengths of the segments of a path, in order.
Lengths(path) == [i \in 1..(Len(path) - 1) |-> Abs(path[i + 1] - path[i])]

\* One path of Paths for every sequence of segment lengths that Paths has:
\* the cursor arithmetic reads the waypoints through distance() only.
PathsByLengths ==
    {CHOOSE path \in Paths : Lengths(path) = ls : ls \in {Lengths(q) : q \in Paths}}

\* The traversal of any path at any distance per tick, the ticker firing for
\* ever.
TraversalInit ==
    /\ \E path \in PathsByLengths, d \in 1..MaxDist : Running(path, d, 0)
    /\ Stored(EmptyBag, {})

TraversalSpec == TraversalInit /\ [][Advance]_vars /\ WF_vars(Advance)

\* NewGPSSimulator called for another instance, with an update interval that
\* gives d distance units per tick: it assigns the package variable
\* DistancePerTick, which updatePosition of every instance reads.
NewGPSSimulator ==
    /\ \E d \in 1..MaxDist : distancePerTick' = d
    /\ UNCHANGED << now, points, apiVars, roads, currentRoad, currentIndex, currentPos,
                    vehicleID, wasInPolygon, currentPolygonID, cleanupDays,
                    ctxCancelled, runPc, janitorPc, tickPending, sweepPending, ticks,
                    sweeps, faultyTicks, hist >>

\* The tick loop of one instance while other instances are constructed; no
\* polygon is active and no call fails while the context is live.
InstancesInit ==
    /\ Constructed({0}, << >>, MaxTicks, 0)
    /\ Stored(EmptyBag, {})

InstancesNext ==
    \/ NewGPSSimulator
    \/ Start
    \/ Stop
    \/ TickerFires
    \/ RunTick
    \/ RunExits

InstancesSpec == InstancesInit /\ [][InstancesNext]_vars

\* The simulator with its janitor, each loop sooner or later reaching its
\* select and taking the ctx.Done branch once the context is cancelled.
LifecycleSpec ==
    Init /\ [][Next]_vars /\ WF_vars(RunExits) /\ WF_vars(JanitorExits)

\* ------------------------------------------------------------------ claims
\* The ticks 1 .. i all ran with every lookup and the persist call succeeding.
FaultFreeUpTo(i) ==
    \A j \in 1..i : hist[j].fault = "none" /\ hist[j].err = ""

\* The samples of the simulated vehicle that tick i persisted.
SamplesOfTick(i) ==
    {r \in DOMAIN points : r.vehicle = TestVehicle /\ r.simulated
                           /\ r.capturedAt = hist[i].at}

\* The position of tick i matched an active polygon and that of the tick
\* before it matched none (or there was no tick before it).
EntersAt(i) == hist[i].truth # 0 /\ (i = 1 \/ hist[i - 1].truth = 0)

\* C1: over ticks whose lookups and persist call all succeed, the sample of a
\* tick carries an ENTRY event if and only if the position of the previous tick
\* matched no active polygon (or there was no previous tick) and the position
\* of this tick matches one.
C1_EntryIffOutsideThenInside ==
    \A i \in DOMAIN hist :
        FaultFreeUpTo(i) =>
            /\ Cardinality(SamplesOfTick(i)) = 1
            /\ \A r \in SamplesOfTick(i) : (r.lpr.type = "ENTRY") <=> EntersAt(i)

\* C1 witness: the containment sequence outside, outside, inside, inside,
\* outside, inside was driven and the event is on the samples of ticks 3 and 6
\* only.
C1_Witness ==
    /\ Len(hist) = 6
    /\ FaultFreeUpTo(6)
    /\ << hist[1].truth # 0, hist[2].truth # 0, hist[3].truth # 0, hist[4].truth # 0,
          hist[5].truth # 0, hist[6].truth # 0 >>
       = << FALSE, FALSE, TRUE, TRUE, FALSE, TRUE >>
    /\ \A i \in 1..6 :
          \A r \in SamplesOfTick(i) : (r.lpr.type = "ENTRY") <=> (i \in {3, 6})

\* The response at hand is a vehicle list GetVehiclesLive returned.
LiveAnswered == resp.op = "live" /\ resp.err = ""

\* The capture instants of the stored samples of vehicle v from instant
\* cutoff on.
InstantsFrom(v, cutoff) ==
    {r.capturedAt : r \in {x \in DOMAIN points : x.vehicle = v /\ x.capturedAt >= cutoff}}

\* The age, at instant at, of the latest of them.
LatestAge(v, cutoff, at) == at - MaxOf(InstantsFrom(v, cutoff))

\* C2: every vehicle GetVehiclesLive returns has one of the three statuses,
\* decided by the age of its latest fetched sample when the age is read:
\* under 2 minutes IN_TRIP, from 2 to under 5 minutes IDLE, 5 minutes or more,
\* or no fetched sample, OFFLINE.
C2_StatusByAge ==
    LiveAnswered =>
        \A v \in DOMAIN resp.entries :
            LET e == resp.entries[v]
            IN  /\ e.status \in {"IN_TRIP", "IDLE", "OFFLINE"}
                /\ IF InstantsFrom(v, resp.cutoff) = {}
                   THEN e.status = "OFFLINE"
                   ELSE LET age == LatestAge(v, resp.cutoff, e.classifiedAt)
                        IN  /\ age < Minutes(2) => e.status = "IN_TRIP"
                            /\ (Minutes(2) <= age /\ age < Minutes(5)) => e.status = "IDLE"
                            /\ age >= Minutes(5) => e.status = "OFFLINE"

\* C2 witness: one list with a vehicle of each status, the IN_TRIP one with a
\* sample younger than 2 minutes, the IDLE one with a sample between 2 and 5
\* minutes old, one OFFLINE for want of a sample.
C2_Witness ==
    /\ LiveAnswered
    /\ \E v \in DOMAIN resp.entries :
          /\ InstantsFrom(v, resp.cutoff) # {}
          /\ LatestAge(v, resp.cutoff, resp.entries[v].classifiedAt) < Minutes(2)
          /\ resp.entries[v].status = "IN_TRIP"
    /\ \E v \in DOMAIN resp.entries :
          /\ InstantsFrom(v, resp.cutoff) # {}
          /\ LatestAge(v, resp.cutoff, resp.entries[v].classifiedAt) >= Minutes(2)
          /\ resp.entries[v].status = "IDLE"
    /\ \E v \in DOMAIN resp.entries :
          InstantsFrom(v, resp.cutoff) = {} /\ resp.entries[v].status = "OFFLINE"

\* The latest stored sample of vehicle v is a seconds old when the request
\* is made.
LatestAged(v, a) ==
    /\ InstantsFrom(v, 0) # {}
    /\ LatestAge(v, 0, resp.at) = Seconds(a)

\* C3 as stated: a latest sample 90 s old gives IN_TRIP, 179 s old IN_TRIP,
\* 181 s old IDLE, 301 s old OFFLINE with no position reported.
C3_AsStated ==
    LiveAnswered =>
        \A v \in DOMAIN resp.entries :
            LET e == resp.entries[v]
            IN  /\ LatestAged(v, 90) => e.status = "IN_TRIP"
                /\ LatestAged(v, 179) => e.status = "IN_TRIP"
                /\ LatestAged(v, 181) => e.status = "IDLE"
                /\ LatestAged(v, 301) => (e.status = "OFFLINE" /\ ~e.lastGps.present)

\* C3, amended: a latest sample 90 s old gives IN_TRIP, 179 s old IDLE (it is
\* past the 2 minutes), 181 s old IDLE, 301 s old OFFLINE with no position
\* reported.
C3_AgeExamples ==
    LiveAnswered =>
        \A v \in DOMAIN resp.entries :
            LET e == resp.entries[v]
            IN  /\ LatestAged(v, 90) => e.status = "IN_TRIP"
                /\ LatestAged(v, 179) => e.status = "IDLE"
                /\ LatestAged(v, 181) => e.status = "IDLE"
                /\ LatestAged(v, 301) => (e.status = "OFFLINE" /\ ~e.lastGps.present)

\* C3 witness: one list with a vehicle whose sample is 179 s old, IDLE, and
\* one whose sample is 301 s old, OFFLINE without position.
C3_Witness ==
    /\ LiveAnswered
    /\ \E v \in DOMAIN resp.entries :
          LatestAged(v, 179) /\ resp.entries[v].status = "IDLE"
    /\ \E v \in DOMAIN resp.entries :
          /\ LatestAged(v, 301)
          /\ resp.entries[v].status = "OFFLINE"
          /\ ~resp.entries[v].lastGps.present

\* C4 as stated: in every entry GetVehiclesLive returns the status is OFFLINE
\* if and only if no last_gps block is reported.
C4_AsStated ==
    LiveAnswered =>
        \A v \in DOMAIN resp.entries :
            (resp.entries[v].status = "OFFLINE") <=> ~resp.entries[v].lastGps.present

\* C4, amended: an entry reports a last_gps block if and only if the vehicle
\* has a sample not older than 5 minutes when the cutoff is read; without the
\* block the status is OFFLINE; with it the status is OFFLINE exactly when the
\* sample has reached the age of 5 minutes by the time its age is read.
C4_OfflineAndLastGps ==
    LiveAnswered =>
        \A v \in DOMAIN resp.entries :
            LET e == resp.entries[v]
            IN  /\ e.lastGps.present <=> InstantsFrom(v, resp.at - Minutes(5)) # {}
                /\ ~e.lastGps.present => e.status = "OFFLINE"
                /\ e.lastGps.present =>
                      /\ e.lastGps.capturedAt
                           = Format(MaxOf(InstantsFrom(v, resp.at - Minutes(5))))
                      /\ (e.status = "OFFLINE")
                           <=> (LatestAge(v, resp.at - Minutes(5), e.classifiedAt)
                                  >= Minutes(5))

\* C4 witness: time advanced between the cutoff and the reading of the age,
\* and an entry is OFFLINE with its last_gps block, the sample having been
\* younger than 5 minutes at the cutoff.
C4_Witness ==
    /\ LiveAnswered
    /\ \E v \in DOMAIN resp.entries :
          LET e == resp.entries[v]
          IN  /\ e.classifiedAt > resp.at
              /\ e.status = "OFFLINE"
              /\ e.lastGps.present
              /\ LatestAge(v, resp.cutoff, resp.at) < Minutes(5)

\* The response at hand is a track GetVehicleTrack returned.
TrackAnswered == resp.op = "track" /\ resp.err = ""

\* The stored samples of the vehicle of the request captured in from .. to.
StoredInRange ==
    {r \in DOMAIN points :
        r.vehicle = resp.vehicle /\ resp.from <= r.capturedAt /\ r.capturedAt <= resp.to}

\* The track holds the stored samples in range, each as often as it is stored,
\* and is empty when there is none or when from > to.
TrackIsRange ==
    /\ DOMAIN resp.track = DOMAIN resp.rows
    /\ \A i \in DOMAIN resp.rows :
          /\ resp.rows[i] \in StoredInRange
          /\ resp.track[i].capturedAt = resp.rows[i].capturedAt \div SubSec
          /\ resp.track[i].lat = resp.rows[i].seg
          /\ resp.track[i].lon = resp.rows[i].pos
    /\ \A r \in StoredInRange :
          Cardinality({i \in DOMAIN resp.rows : resp.rows[i] = r}) = points[r]
    /\ StoredInRange = {} => resp.track = << >>
    /\ resp.from > resp.to => resp.track = << >>

\* C5 as stated: the track an authorized caller gets holds exactly the stored
\* samples of the vehicle in from .. to, in strictly ascending capturedAt order.
C5_AsStated ==
    TrackAnswered =>
        /\ TrackIsRange
        /\ \A i, j \in DOMAIN resp.rows :
              i < j => resp.rows[i].capturedAt < resp.rows[j].capturedAt

\* C5, amended: the track an authorized caller gets holds exactly the stored
\* samples of the vehicle in from .. to (both inclusive), in ascending
\* capturedAt order, samples of equal capturedAt next to each other and
\* samples of different capturedAt in strict order; it is the empty list,
\* without error, when no sample is in range or from > to.
C5_TrackInRangeAscending ==
    TrackAnswered =>
        /\ TrackIsRange
        /\ \A i, j \in DOMAIN resp.rows :
              i < j =>
                 /\ resp.rows[i].capturedAt <= resp.rows[j].capturedAt
                 /\ resp.track[i].capturedAt <= resp.track[j].capturedAt

\* C5 witness: a track of three samples, two of them of one capturedAt, of a
\* store filled out of order, both bounds of the range met by a sample.
C5_Witness ==
    /\ TrackAnswered
    /\ \E i, j, k \in DOMAIN resp.rows :
          /\ i < j /\ j < k
          /\ resp.rows[i].capturedAt = resp.from
          /\ resp.rows[j].capturedAt = resp.rows[k].capturedAt
          /\ resp.rows[k].capturedAt = resp.to
          /\ resp.from < resp.to

\* C6: DeleteOldGPSPoints changes the table only for a KGU or Akimat caller
\* with a cutoff not after the current time; any other caller gets
\* PermissionDenied, a KGU or Akimat caller with a future cutoff gets
\* InvalidInput, and on every error the table is as it was.
C6_DeleteGuards ==
    resp.op = "delete" =>
        LET admin == resp.principal.role \in {"KGU_ZKH_ADMIN", "AKIMAT_ADMIN"}
        IN  /\ ~admin => resp.err = "PermissionDenied"
            /\ (admin /\ resp.cutoff > resp.at) => resp.err = "InvalidInput"
            /\ resp.err # "" => (points = resp.before /\ resp.deleted = 0)
            /\ points # resp.before => (admin /\ resp.cutoff <= resp.at)

\* C6 witness: an Akimat caller asking for a cutoff an hour from now was
\* refused with InvalidInput, the table holding rows.
C6_Witness ==
    /\ resp.op = "delete"
    /\ resp.principal.role = "AKIMAT_ADMIN"
    /\ resp.cutoff = resp.at + Hours(1)
    /\ resp.err = "InvalidInput"
    /\ points # EmptyBag

\* C7: DeleteOlderThan(cutoff) removes exactly the points captured strictly
\* before the cutoff, keeps every point captured at or after it, each as often
\* as it was stored, and returns the number of points removed; with the cutoff
\* 7 days before now and points aged 1, 6, 8 and 10 days it removes the 8- and
\* the 10-day point.
C7_DeleteOlderThanExact ==
    (resp.op = "delete" /\ resp.err = "") =>
        LET old == {r \in DOMAIN resp.before : r.capturedAt < resp.cutoff}
            kept == DOMAIN resp.before \ old
        IN  /\ DOMAIN points = kept
            /\ \A r \in kept : points[r] = resp.before[r]
            /\ resp.deleted = BagCardinality([r \in old |-> resp.before[r]])
            /\ (resp.before = OldFixture /\ resp.cutoff = resp.at - Days(7)) =>
                  /\ points = SetToBag({FeedRow(1, Epoch - Days(1)),
                                        FeedRow(1, Epoch - Days(6))})
                  /\ resp.deleted = 2

\* C7 witness: the deletion with the cutoff 7 days before now over the points
\* aged 1, 6, 8 and 10 days returned 2.
C7_Witness ==
    /\ resp.op = "delete"
    /\ resp.err = ""
    /\ resp.before = OldFixture
    /\ resp.cutoff = resp.at - Days(7)
    /\ resp.deleted = 2
    /\ DOMAIN points = {FeedRow(1, Epoch - Days(1)), FeedRow(1, Epoch - Days(6))}

\* C8: with cleanupDays <= 0 the janitor never starts and no point is ever
\* deleted: the table holds the points it held at the start, whatever their
\* age, and one more for every tick that persisted its sample.
C8_DisabledJanitorDeletesNothing ==
    cleanupDays <= 0 =>
        /\ janitorPc = "new"
        /\ sweeps = 0
        /\ OldFixture \sqsubseteq points
        /\ BagCardinality(points)
             = BagCardinality(OldFixture)
               + Cardinality({i \in DOMAIN hist : hist[i].persisted})

\* C8 witness: a run with the janitor disabled that ticked to the end and was
\* stopped, the table still holding the points aged 8 and 10 days.
C8_Witness ==
    /\ cleanupDays <= 0
    /\ runPc = "exited"
    /\ Len(hist) = tickBudget
    /\ \E i \in DOMAIN hist : hist[i].persisted
    /\ \E r \in DOMAIN points : r.capturedAt = Epoch - Days(10)

\* C9: a tick that returns an error leaves currentIndex and currentPos as they
\* were before it.
C9_FailedTickKeepsCursor ==
    \A i \in DOMAIN hist :
        hist[i].err # "" =>
            hist[i].index = hist[i].preIndex /\ hist[i].pos = hist[i].prePos

\* C10: a tick on which the polygon listing, a containment check or the camera
\* lookup fails persists no sample.
C10_LookupFailureSkipsTick ==
    \A i \in DOMAIN hist : LookupFails(hist[i].fault) => ~hist[i].persisted

\* The last tick that ran returned an error and the simulator is not stopped.
LastTickFailed ==
    /\ hist # << >>
    /\ hist[Len(hist)].err # ""
    /\ ~ctxCancelled

\* C11: the tick loop exits only when the simulator is stopped, a tick that
\* returned an error included; updatePosition runs at most once per firing of
\* the ticker; and unless Stop is called the ticker fires again after a failed
\* tick, and a firing of the ticker is followed by one updatePosition.
C11_FailedTickKeepsLoop ==
    /\ [](runPc = "exited" => ctxCancelled)
    /\ [](Len(hist) <= ticks)
    /\ (LastTickFailed /\ ~tickPending /\ ticks < tickBudget)
          ~> (tickPending \/ ctxCancelled)
    /\ (tickPending /\ ~ctxCancelled) ~> (~tickPending \/ ctxCancelled)

\* C11 witness: the first tick failed to persist its sample, a second tick
\* ran after it, and the loop runs on without Stop having been called.
C11_Witness ==
    /\ Len(hist) = 2
    /\ hist[1].err # ""
    /\ hist[1].fault = "persist"
    /\ hist[2].err = ""
    /\ runPc = "loop"
    /\ ~ctxCancelled

\* The road the simulator drives.
Driven == RoadAt(roads, currentRoad)

\* C12: on a path of at least 2 waypoints, at a positive distance per tick,
\* the cursor after every tick has 0 <= currentIndex < len(nodes) - 1 and
\* 0.0 <= currentPos <= 1.0, the tick having succeeded or not.
C12_CursorInRange ==
    (Len(Driven) >= 2 /\ distancePerTick > 0) =>
        /\ 0 <= currentIndex /\ currentIndex < Len(Driven) - 1
        /\ 0 <= currentPos /\ currentPos <= PosScale
        /\ \A i \in DOMAIN hist :
              /\ 0 <= hist[i].index /\ hist[i].index < Len(Driven) - 1
              /\ 0 <= hist[i].pos /\ hist[i].pos <= PosScale
              /\ hist[i].index = hist[i].seg

\* C12 witness: a tick left a segment shorter than the distance of a tick
\* behind it and stands at the end (1.0) of the next segment of the path.
C12_Witness ==
    /\ Len(Driven) >= 3
    /\ \E i \in DOMAIN hist :
          /\ hist[i].index = hist[i].preIndex + 1
          /\ hist[i].pos = PosScale
          /\ SegmentLength(Driven, hist[i].index) > distancePerTick

\* Tick i stood on the last segment of the path with less than the distance
\* of a tick left on it.
WouldPassEnd(i) ==
    /\ hist[i].preIndex = Len(Driven) - 2
    /\ (PosScale - hist[i].prePos) * Abs(Driven[Len(Driven)] - Driven[Len(Driven) - 1])
          < distancePerTick * PosScale

\* C13: a tick that would advance the cursor past the last segment of the
\* path resets it to index 0, progress 0.0 of the same path and applies its
\* advance from there; the sample of that tick lies on segment 0.
C13_WrapToSegmentZero ==
    \A i \in DOMAIN hist :
        WouldPassEnd(i) =>
            /\ currentRoad = 1
            /\ hist[i].err \in {"", "failed to save GPS point"}
            /\ hist[i].index = 0
            /\ hist[i].seg = 0
            /\ hist[i].pos <= PosScale
            /\ hist[i].pos
                 = Progress(distancePerTick,
                            Abs(Driven[Len(Driven)] - Driven[Len(Driven) - 1]))
            /\ hist[i].persisted =>
                  \E r \in DOMAIN points :
                      /\ r.capturedAt = hist[i].at
                      /\ r.seg = 0
                      /\ r.pos = hist[i].pos

\* C13 witness: on a path of two segments a tick on segment 1 wrapped, and
\* its sample is stored on segment 0.
C13_Witness ==
    /\ Len(Driven) = 3
    /\ \E i \in DOMAIN hist :
          /\ hist[i].preIndex = 1
          /\ hist[i].prePos > 0
          /\ WouldPassEnd(i)
          /\ hist[i].persisted
          /\ \E r \in DOMAIN points : r.capturedAt = hist[i].at /\ r.seg = 0

\* The number of rows of the simulated vehicle a table holds.
SimulatorRows(B) ==
    BagCardinality([r \in {x \in DOMAIN B : x.vehicle = TestVehicle /\ x.simulated}
                      |-> B[r]])

\* The step is one updatePosition.
TickRan == Len(hist') = Len(hist) + 1

\* C14: a tick that succeeds appends exactly one row to the table, a row of
\* the simulated vehicle with the simulated flag and the speed of 20 km/h,
\* captured at the instant of the tick; a tick that returns an error leaves
\* the table as it was; the rows of the simulator grow in number by no other
\* step.
C14_OneRowPerGoodTick ==
    [][ /\ (TickRan /\ hist'[Len(hist')].err = "") =>
              \E r \in DOMAIN points' :
                  /\ r.vehicle = TestVehicle
                  /\ r.simulated
                  /\ r.speed = 20
                  /\ r.capturedAt = now
                  /\ points' = points (+) SetToBag({r})
                  /\ SimulatorRows(points') = SimulatorRows(points) + 1
        /\ (TickRan /\ hist'[Len(hist')].err # "") => points' = points
        /\ ~TickRan => SimulatorRows(points') <= SimulatorRows(points)
      ]_vars

\* C14 witness: of three ticks the second failed to persist its sample, and
\* the table holds two rows of the simulator.
C14_Witness ==
    /\ Len(hist) = 3
    /\ hist[1].err = ""
    /\ hist[2].err # ""
    /\ hist[3].err = ""
    /\ SimulatorRows(points) = 2

\* The simulator's rows in the table.
SimulatorSamples == {r \in DOMAIN points : r.vehicle = TestVehicle /\ r.simulated}

\* C15: the samples of the simulated vehicle are persisted in strictly
\* increasing capturedAt order: of two ticks that persisted, the later one
\* stamped a later instant, no two stored samples of the simulator share an
\* instant, and the sample persisted last is the newest in the table.
C15_StrictlyIncreasingCapturedAt ==
    /\ \A i, j \in 1..Len(hist) :
          (i < j /\ hist[i].persisted /\ hist[j].persisted) => hist[i].at < hist[j].at
    /\ LET S == SimulatorSamples
       IN  /\ \A r \in S : points[r] = 1
           /\ Cardinality({r.capturedAt : r \in S}) = Cardinality(S)
           /\ (hist # << >> /\ hist[Len(hist)].persisted) =>
                  \A r \in S : r.capturedAt <= hist[Len(hist)].at

\* C15 witness: three samples persisted, with a failed tick between them.
C15_Witness ==
    /\ Len(hist) = 4
    /\ hist[1].persisted
    /\ ~hist[2].persisted
    /\ hist[3].persisted
    /\ hist[4].persisted
    /\ Cardinality(SimulatorSamples) = 3

\* The position of a listed vehicle lies inside the box.
InsideBBox(b, g) ==
    /\ b.minLat <= g.lat
    /\ g.lat <= b.maxLat
    /\ b.minLon <= g.lon
    /\ g.lon <= b.maxLon

\* C16: the live listing is filterable: with a bounding box supplied, every
\* returned vehicle that has a position lies inside the box; with a
\* contractor_id supplied, every returned vehicle belongs to that
\* organization.
C16_ListingFiltered ==
    LiveAnswered =>
        /\ resp.input.bbox.present =>
              \A v \in DOMAIN resp.entries :
                  resp.entries[v].lastGps.present =>
                      InsideBBox(resp.input.bbox, resp.entries[v].lastGps)
        /\ resp.input.contractor # 0 =>
              \A v \in DOMAIN resp.entries :
                  resp.entries[v].contractor = resp.input.contractor

\* The roles that see every vehicle, and the caller's being one of them.
SeesAll == {"AKIMAT_ADMIN", "KGU_ZKH_ADMIN", "TOO_ADMIN", "LANDFILL_ADMIN", "LANDFILL_USER"}
KnownRoles == SeesAll \cup {"CONTRACTOR_ADMIN", "DRIVER"}

\* The response at hand answers a request of GetVehicleTrack for a vehicle
\* of table vehicles, whose lookup did not fail.
TrackOfKnownVehicle ==
    resp.op = "track" /\ resp.vehicle \in VehicleIDs /\ resp.err # "Internal"

\* C17: contractor isolation on the read path.  To a contractor
\* GetVehiclesLive returns the vehicles of the caller's organization and no
\* other, and GetVehicleTrack returns points for such a vehicle only and
\* PermissionDenied for any other, a vehicle with no contractor included; the
\* Akimat, KGU, technical-operator and landfill roles are listed every vehicle
\* and are denied the track of none; a caller of no known role gets
\* PermissionDenied.
C17_ContractorIsolation ==
    /\ (LiveAnswered /\ resp.principal.role = "CONTRACTOR_ADMIN") =>
          DOMAIN resp.entries = {v \in VehicleIDs : ContractorOf(v) = resp.principal.org}
    /\ (LiveAnswered /\ resp.principal.role \in SeesAll) =>
          DOMAIN resp.entries = VehicleIDs
    /\ (resp.op = "live" /\ resp.principal.role \notin KnownRoles) =>
          resp.err = "PermissionDenied" /\ DOMAIN resp.entries = {}
    /\ (TrackOfKnownVehicle /\ resp.principal.role = "CONTRACTOR_ADMIN") =>
          IF ContractorOf(resp.vehicle) = resp.principal.org
          THEN resp.err = ""
          ELSE resp.err = "PermissionDenied" /\ resp.track = << >>
    /\ (TrackOfKnownVehicle /\ resp.principal.role \in SeesAll) => resp.err = ""
    /\ (TrackOfKnownVehicle /\ resp.principal.role \notin KnownRoles) =>
          resp.err = "PermissionDenied" /\ resp.track = << >>

\* C17 witness: the contractor of organization 2 is returned the points of
\* its vehicle.
C17_Witness ==
    /\ TrackAnswered
    /\ resp.principal = Principal("CONTRACTOR_ADMIN", 2)
    /\ resp.vehicle = 2
    /\ Len(resp.track) >= 1

\* What GetVehicleTrack answers the caller p about an id that names no
\* vehicle, no storage call failing.
OutcomeForUnknown(p) == TrackError(p, UnknownVehicle, "none")

\* C18: a caller who may not view a vehicle learns nothing of its existence:
\* the outcome of GetVehicleTrack for a vehicle that exists and that the
\* caller may not view is the outcome the same caller gets for an id that
\* names no vehicle.
C18_DeniedLooksUnknown ==
    (TrackOfKnownVehicle /\ ~CanView(resp.principal, resp.vehicle)) =>
        /\ resp.err = OutcomeForUnknown(resp.principal)
        /\ resp.track = << >>

\* Stop has returned.
Stopped == ctxCancelled

\* C19: Stop signals and joins: once Stop has returned, the tick loop and the
\* janitor loop have both terminated, and from then on no updatePosition
\* runs, no sample is persisted and no delete is issued.
C19_StopJoins ==
    /\ [](Stopped => (runPc # "loop" /\ janitorPc # "loop"))
    /\ [][Stopped => (/\ hist' = hist
                      /\ points' = points
                      /\ ~(sweepPending /\ ~sweepPending'))]_vars

\* Start has loaded a path set with no path, or whose path has fewer than 2
\* waypoints.
BadPathSet == vehicleID = TestVehicle /\ (roads = << >> \/ Len(roads[1]) < 2)

EntersPolygonAt(i) ==
    hist[i].matched # 0 /\ (i = 1 \/ hist[i - 1].matched # hist[i].matched)

StopCalled == ctxCancelled

\* Once Stop has been called both loops exit.
LoopsExitAfterStop == StopCalled ~> (runPc # "loop" /\ janitorPc # "loop")

\* Once Stop has been called no loop is launched, by a later Start either.
NoLaunchAfterStop ==
    [][StopCalled => (/\ runPc' \in {runPc, "exited"}
                      /\ janitorPc' \in {janitorPc, "exited"})]_vars

\* Once Stop has been called no updatePosition and no sweep runs.
NoTickAfterStop ==
    [][StopCalled => (/\ Len(hist') = Len(hist)
                      /\ (sweepPending' \/ ~sweepPending))]_vars

\* C22: Stopped is terminal after an explicit Stop: once Stop has been called
\* both loops eventually exit, no loop is launched again even if Start is
\* called again, and no tick and no janitor sweep ever runs again.
C22_StoppedIsTerminal ==
    /\ LoopsExitAfterStop
    /\ NoLaunchAfterStop
    /\ NoTickAfterStop

\* min(1.0, distancePerTick / segmentLength) for the segment the position of
\* tick i was emitted on; the quotient by a zero length is +Inf.
IncrementOnEmittedSegment(i) ==
    LET segLen == SegmentLength(Driven, hist[i].seg)
    IN  IF segLen = 0 THEN PosScale
        ELSE Min(PosScale, (distancePerTick * PosScale) \div segLen)

\* C23: on every tick that emits a position, the progress increment is
\* min(1.0, distancePerTick / segmentLength) with the length of the segment
\* the position is emitted on: after the look-ahead has moved to the next
\* segment, the length of that segment and not of the one just left.
C23_IncrementFromEmittedSegment ==
    (Len(Driven) >= 2 /\ distancePerTick > 0) =>
        \A i \in DOMAIN hist :
            hist[i].err = "" => hist[i].progress = IncrementOnEmittedSegment(i)

\* On tick i the polygon at position k of the listing was fetched, its
\* containment check succeeded and returned true.
CheckedTrue(i, k) ==
    /\ hist[i].fault \notin {"list", "all"}
    /\ polygonList[k] \in hist[i].inside
    /\ ~(hist[i].fault = "contains1" /\ polygonList[k] = 1)
    /\ ~(hist[i].fault = "contains2" /\ polygonList[k] = 2)

\* C24: matching is first-match-wins over the polygons listed on the tick:
\* the matched polygon is the first in listing order whose containment check
\* succeeds and returns true, a later polygon that contains the position too
\* changes nothing, there is no match when no check does so, and an event
\* raised on the tick is an ENTRY event naming the matched polygon, which the
\* persisted sample carries.  Stated of the tick just taken, in the state it
\* leaves: every tick is the last of hist in that state.
C24_FirstMatchWins ==
    LET i == Len(hist)
    IN  (hist # << >> /\ hist[i].err \in {"", "failed to save GPS point"}) =>
            /\ \A k \in DOMAIN polygonList :
                  (CheckedTrue(i, k) /\ \A j \in 1..(k - 1) : ~CheckedTrue(i, j))
                      => hist[i].matched = polygonList[k]
            /\ (\A k \in DOMAIN polygonList : ~CheckedTrue(i, k)) => hist[i].matched = 0
            /\ hist[i].lpr # NoEvent =>
                  /\ hist[i].lpr.type = "ENTRY"
                  /\ hist[i].lpr.polygon = hist[i].matched
                  /\ hist[i].matched # 0
            /\ hist[i].persisted =>
                  \A r \in SamplesOfTick(i) : r.lpr = hist[i].lpr

\* C24 witness: on the first tick both polygons contain the position, the
\* first of the listing is matched and the persisted sample carries the ENTRY
\* event naming it; on the second the check of the first polygon fails and the
\* second polygon is matched.
C24_Witness ==
    /\ Len(hist) = 2
    /\ hist[1].inside = {1, 2}
    /\ hist[1].fault = "none"
    /\ hist[1].matched = polygonList[1]
    /\ \E r \in SamplesOfTick(1) : r.lpr.type = "ENTRY" /\ r.lpr.polygon = polygonList[1]
    /\ hist[2].inside = {1, 2}
    /\ hist[2].fault = "contains1"
    /\ hist[2].matched = polygonList[2]

\* The positions, in the camera listing of polygon p, of the cameras that
\* are active and of type LPR.
ActiveLPRAt(p) ==
    {k \in DOMAIN CamerasOf(p) : CamerasOf(p)[k].active /\ CamerasOf(p)[k].type = "LPR"}

\* The camera listing of tick i was fetched.
CamerasListed(i) == hist[i].fault \notin {"camera", "all"}

\* C25: on a tick that detects an entry the ENTRY event is emitted whatever
\* the camera lookup gives; its camera is the first camera of the matched
\* polygon's listing that is active and of type LPR, and it has no camera id
\* when the polygon has no such camera or the camera listing fails.  Stated
\* of the tick just taken, in the state it leaves.
C25_FirstActiveLPRCamera ==
    LET i == Len(hist)
    IN  (hist # << >> /\ hist[i].matched # 0 /\ ~hist[i].wasBefore) =>
            LET p == hist[i].matched
                e == hist[i].lpr
            IN  /\ e.type = "ENTRY"
                /\ e.polygon = p
                /\ (CamerasListed(i) /\ ActiveLPRAt(p) # {}) =>
                      \E k \in ActiveLPRAt(p) :
                          /\ e.camera = CamerasOf(p)[k].id
                          /\ \A j \in ActiveLPRAt(p) : k <= j
                /\ (~CamerasListed(i) \/ ActiveLPRAt(p) = {}) => e.camera = 0
                /\ hist[i].persisted => \A r \in SamplesOfTick(i) : r.lpr = e

\* C25 witness: an entry into polygon 1 whose event names camera 3, the
\* first active LPR camera behind an active ANPR and an inactive LPR one,
\* and a later entry into polygon 1 with the camera listing failing, whose
\* event has no camera id.
C25_Witness ==
    /\ Len(hist) = 4
    /\ hist[1].matched = 1 /\ hist[1].lpr.camera = 3 /\ hist[1].persisted
    /\ hist[2].matched = 0
    /\ hist[3].matched = 1 /\ hist[3].fault = "camera"
    /\ hist[3].lpr.type = "ENTRY" /\ hist[3].lpr.camera = 0
    /\ hist[4].matched = 0

\* The stored samples of vehicle v, and the newest of them.
SamplesOf(v) == {r \in DOMAIN points : r.vehicle = v}
NewestOf(v) == {r \in SamplesOf(v) : \A q \in SamplesOf(v) : q.capturedAt <= r.capturedAt}

\* The entry e reports the sample r.
Reports(e, r) ==
    /\ e.lastGps.present
    /\ e.lastGps.capturedAt = r.capturedAt \div SubSec
    /\ e.lastGps.lat = r.seg
    /\ e.lastGps.lon = r.pos
    /\ e.lastGps.simulated = r.simulated

\* C26: in a listing GetVehiclesLive returned, every vehicle listed has one
\* entry, its own; for a vehicle with a sample captured at or after the
\* cutoff of 5 minutes the entry reports the sample of that vehicle with the
\* greatest capturedAt; a reported sample is always a sample of the vehicle
\* of the entry.
C26_LatestSamplePerVehicle ==
    LiveAnswered =>
        \A v \in DOMAIN resp.entries :
            /\ resp.entries[v].vehicle = v
            /\ (\E r \in SamplesOf(v) : r.capturedAt >= resp.cutoff) =>
                  \E r \in NewestOf(v) : Reports(resp.entries[v], r)
            /\ resp.entries[v].lastGps.present =>
                  \E r \in SamplesOf(v) : Reports(resp.entries[v], r)

\* C26 witness: vehicle 1 has samples aged 90 s and 179 s, vehicle 2 one
\* aged 181 s; the listing reports the sample aged 90 s for vehicle 1, the
\* sample of vehicle 2 for vehicle 2, and none for the test vehicle.
C26_Witness ==
    /\ LiveAnswered
    /\ resp.at = Epoch
    /\ DOMAIN resp.entries = VehicleIDs
    /\ {r.capturedAt : r \in SamplesOf(1)} = {Epoch - Seconds(90), Epoch - Seconds(179)}
    /\ {r.capturedAt : r \in SamplesOf(2)} = {Epoch - Seconds(181)}
    /\ resp.entries[1].lastGps.capturedAt = (Epoch - Seconds(90)) \div SubSec
    /\ resp.entries[2].lastGps.capturedAt = (Epoch - Seconds(181)) \div SubSec
    /\ ~resp.entries[3].lastGps.present

\* Over the ticks i .. j the position stayed inside one polygon.
DwellOver(i, j) ==
    \A k \in i..j : hist[k].truth # 0 /\ hist[k].truth = hist[i].truth

\* C27: a failure of the polygon listing or of a containment check while
\* the vehicle stays inside a polygon raises no second ENTRY event for that
\* dwell: of the ticks of one contiguous dwell at most one carries an ENTRY
\* event, and a tick inside the polygon whose lookup failed leaves
\* wasInPolygon set.
C27_NoSecondEntryInDwell ==
    /\ \A i, j \in DOMAIN hist :
          (i < j /\ DwellOver(i, j)) =>
              ~(hist[i].lpr.type = "ENTRY" /\ hist[j].lpr.type = "ENTRY")
    /\ (/\ hist # << >>
        /\ hist[Len(hist)].truth # 0
        /\ hist[Len(hist)].wasBefore
        /\ hist[Len(hist)].fault \in {"list", "contains1", "contains2"})
          => wasInPolygon

\* On the ticks 1 .. j no call failed but, on some, the persist call.
OnlyPersistFailsUpTo(j) == \A k \in 1..j : hist[k].fault \in {"none", "persist"}

\* A dwell begins at tick i: the position is inside a polygon and was
\* outside on the tick before (or there was none).
DwellBeginsAt(i) == hist[i].truth # 0 /\ (i = 1 \/ hist[i - 1].truth = 0)

\* C28: no entry event is lost to a persistence failure: of a contiguous
\* dwell inside a polygon during which a sample was persisted, some persisted
\* sample carries the ENTRY event, also when the persist call of the tick
\* that detected the entry failed.
C28_EntryNotLostToPersistFailure ==
    \A i, j \in DOMAIN hist :
        (/\ i <= j
         /\ OnlyPersistFailsUpTo(j)
         /\ DwellBeginsAt(i)
         /\ DwellOver(i, j)
         /\ \E k \in i..j : hist[k].persisted)
            => \E k \in i..j :
                  /\ hist[k].persisted
                  /\ \E r \in SamplesOfTick(k) : r.lpr.type = "ENTRY"

\* C29: the distance an instance moves per tick is SpeedMs times its own
\* update interval for its whole lifetime, whatever other instances are
\* constructed: every tick that emits a position advances by the distance of
\* the instance's own interval over the segment length the tick read.
C29_OwnDistancePerTick ==
    \A i \in DOMAIN hist :
        hist[i].err = "" =>
            hist[i].progress =
                (IF hist[i].segLen = 0 THEN PosScale
                 ELSE Min(PosScale, (DistanceUnitsPerTick * PosScale) \div hist[i].segLen))

\* The last tick took the cursor past the end of the path and back to
\* segment 0.
WrappedToStart == hist # << >> /\ hist[1].wrapped /\ hist[1].index = 0

\* C30: traversal never gets stuck: on any path of at least 2 waypoints,
\* segments of length zero and segments shorter than one tick's distance
\* included, and at any positive distance per tick, the cursor reaches the
\* end of the path and wraps back to segment 0 again and again for as long
\* as the loop runs; a tick fails on no such path and moves the index by one
\* segment at most, from the last segment to segment 0.
C30_TraversalNeverStuck ==
    /\ []<>WrappedToStart
    /\ [](hist # << >> =>
            /\ hist[1].err = ""
            /\ \/ hist[1].index = hist[1].preIndex
               \/ hist[1].index = hist[1].preIndex + 1
               \/ (hist[1].wrapped /\ hist[1].preIndex = Len(Driven) - 2
                                   /\ hist[1].index = 0))

\* C30 witness: on a path of three waypoints whose first segment has length
\* zero and whose second is longer than one tick's distance, the cursor has
\* wrapped back to segment 0.
C30_Witness ==
    /\ Len(Driven) = 3
    /\ Driven[1] = Driven[2]
    /\ Abs(Driven[3] - Driven[2]) > distancePerTick
    /\ WrappedToStart
    /\ hist[1].preIndex = 1

=============================================================================
